---- MODULE Spec2Model ----
(***************************************************************************)
(* A model of the drone scheduler queue (scheduler/queue/queue.go) and of  *)
(* the build manager (operator/manager: Accept, Watch, Cancel).            *)
(*                                                                         *)
(* The queue is modelled at the granularity of its critical sections: a    *)
(* Lock(); ...; Unlock() block that nobody can observe half-way is one     *)
(* step, guarded by the mutex being free.  The dispatch pass of signal()   *)
(* holds the mutex over many steps (the deferred Unlock), so the mutex is  *)
(* a variable.  A send on the unbuffered worker channel is a rendezvous:   *)
(* the sender blocks ("send") until the receiver takes the value.          *)
(***************************************************************************)
EXTENDS Integers, Sequences, FiniteSets, TLC

\* ------------------------------------------------------------- bounds
NumWorkers == 2
NumStages == 2
NumBuilds == 2
MaxTime == 2

Workers == 1..NumWorkers
StageIds == 1..NumStages
BuildIds == 1..NumBuilds
Repos == {1, 2}

\* ------------------------------------------------------------ statuses
StatusPending == "pending"
StatusRunning == "running"
StatusPassing == "passing"
StatusFailing == "failing"
StatusKilled == "killed"
StatusSkipped == "skipped"
StatusError == "error"
StatusBlocked == "blocked"

Terminal == {StatusPassing, StatusFailing, StatusKilled, StatusSkipped, StatusError}

\* core.Stage.IsDone / core.Step.IsDone: the entity has a terminal status.
IsDone(status) == status \in Terminal

\* ------------------------------------------------------ platform values
\* A label map is a set of <<key, value>> pairs with at most one pair per key.
NoLabels == {}
LabelsA == {<<"k1", "a">>}
LabelsB == {<<"k1", "b">>}
LabelsAB == {<<"k1", "a">>, <<"k2", "b">>}

Platform(os, arch, variant, kernel, labels) ==
    [os |-> os, arch |-> arch, variant |-> variant, kernel |-> kernel, labels |-> labels]

\* The platform a stage of the store may declare.
StageProfiles ==
    { Platform("linux", "amd64", "", "", NoLabels),
      Platform("linux", "arm", "v7", "", NoLabels),
      Platform("linux", "amd64", "", "1803", NoLabels),
      Platform("linux", "amd64", "", "", LabelsA),
      Platform("windows", "amd64", "", "", NoLabels) }

\* The filter an agent may pass to Request.
WorkerProfiles ==
    { Platform("linux", "amd64", "", "", NoLabels),
      Platform("linux", "arm", "v6", "", NoLabels),
      Platform("linux", "amd64", "v7", "1803", NoLabels),
      Platform("linux", "amd64", "", "", LabelsAB),
      Platform("linux", "amd64", "", "", LabelsA),
      Platform("linux", "amd64", "", "", LabelsB) }

DefaultPlatform == Platform("linux", "amd64", "", "", NoLabels)

VARIABLES
    \* the store
    builds,      \* build id -> [status, source, repo, started, finished]
    stages,      \* stage id -> the stage row
    steps,       \* step id -> the step row
    now,         \* the clock read by time.Now().Unix()
    fleet,       \* the platforms of the agents that call Request
    \* the queue
    mutex,       \* "none", or "signal" while a dispatch pass holds q.Mutex
    ready,       \* number of wake-ups buffered in q.ready (capacity 1)
    paused,      \* q.paused
    workers,     \* q.workers: the waiting set
    wfilter,     \* the worker record each Request call created
    rpc,         \* position of each Request call
    got,         \* the stage id Request returned to each caller (0: none)
    \* the dispatch loop (queue.start / queue.signal)
    dpc,         \* position of the dispatch loop
    items,       \* the list ListIncomplete returned to this pass
    idx,         \* index of the item the pass is at
    target,      \* the worker the pass is sending to (0: none)
    passHanded,  \* <<stage id, worker>> hand-offs of the current pass
    adminpc,     \* position of the Resume call
    \* Manager.Accept, one call per agent
    apc,         \* position of each Accept call, then its result
    acopy,       \* the stage row Accept read with Stages.Find
    \* Manager.Cancel, one call at a time
    cpc,         \* position of the Cancel call
    cb,          \* the *core.Build the caller passed (read from the store by the handler)
    cuser,       \* whether a user was passed
    cstages,     \* the list Stages.ListSteps returned, as Cancel has changed it so far
    clisted,     \* the same list as it was returned
    ci,          \* index of the stage Cancel is at
    cj,          \* index of the step Cancel is at
    cres,        \* what the last Cancel call returned
    cpre,        \* the store and the collaborators as they were when Cancel was called
    cleft,       \* how many more Cancel calls the users make
    cfail,       \* the calls of the current Cancel call that failed
    cancelled,   \* builds for which Scheduler.Cancel was called
    statusSent,  \* builds for which Status.Send succeeded
    webhookSent, \* builds for which Webhook.Send succeeded
    \* Manager.Watch, one call at a time
    wpc,         \* position of the Watch call
    wres,        \* what the Watch call saw and returned
    \* Manager.After, one call at a time
    after,       \* the After call: position, step, sub-calls tried and failed, errors returned
    logz         \* steps with a live log stream

storeVars == <<builds, stages, steps, now, fleet>>
queueVars == <<mutex, ready, paused, workers, wfilter, rpc, got>>
dispVars == <<dpc, items, idx, target, passHanded>>
accVars == <<apc, acopy>>
cancelVars == <<cpc, cb, cuser, cstages, clisted, ci, cj, cres, cpre, cleft, cfail, cancelled, statusSent, webhookSent>>
watchVars == <<wpc, wres>>
afterVars == <<after, logz>>
mgrVars == <<accVars, cancelVars, watchVars, afterVars>>
vars == <<storeVars, queueVars, dispVars, adminpc, mgrVars>>

\* ---------------------------------------------------------- the store
Min(S) == CHOOSE x \in S : \A y \in S : x <= y

RECURSIVE SortedSeq(_)
SortedSeq(S) == IF S = {} THEN <<>> ELSE <<Min(S)>> \o SortedSeq(S \ {Min(S)})

\* One row of StageStore.ListIncomplete: the stage with its build attached.
Item(s) ==
    [id |-> s, build |-> stages[s].build, repo |-> stages[s].repo,
     name |-> stages[s].name, limit |-> stages[s].limit,
     os |-> stages[s].os, arch |-> stages[s].arch,
     variant |-> stages[s].variant, kernel |-> stages[s].kernel,
     labels |-> stages[s].labels,
     status |-> stages[s].status, machine |-> stages[s].machine,
     bstatus |-> builds[stages[s].build].status,
     bsource |-> builds[stages[s].build].source]

\* StageStore.ListIncomplete: the stages that are not terminal, in id order.
ListIncomplete ==
    LET ids == SortedSeq({s \in StageIds : ~IsDone(stages[s].status)})
    IN [i \in 1..Len(ids) |-> Item(ids[i])]

\* -------------------------------------------------- eligibility (pure)
\* checkLabels with the length test dropped: a is only required to be included in b.
checkLabelsSubset(a, b) ==
    \A p \in a : (\E q \in b : q[1] = p[1]) /\ (\A q \in b : q[1] = p[1] => q[2] = p[2])

checkLabels(a, b) ==
    IF Cardinality(a) # Cardinality(b) THEN FALSE
    ELSE \A p \in a : (\E q \in b : q[1] = p[1]) /\ (\A q \in b : q[1] = p[1] => q[2] = p[2])

\* The body of the worker loop of signal: does worker record w fit item?
Matches(item, w) ==
    /\ w.os = item.os
    /\ w.arch = item.arch
    /\ ~(item.variant # "" /\ item.variant # w.variant)
    /\ ~(item.kernel # "" /\ item.kernel # w.kernel)
    /\ (Cardinality(item.labels) > 0 \/ Cardinality(w.labels) > 0) => checkLabels(item.labels, w.labels)

\* withinLimits with the comparison off by one.
withinLimitsOffByOne(stage, siblings) ==
    IF stage.limit = 0 THEN TRUE
    ELSE Cardinality({i \in 1..Len(siblings) :
            /\ siblings[i].repo = stage.repo
            /\ siblings[i].id # stage.id
            /\ siblings[i].name = stage.name
            /\ siblings[i].id < stage.id}) <= stage.limit

\* withinLimits without the test of the sibling's name.
withinLimitsAnyName(stage, siblings) ==
    IF stage.limit = 0 THEN TRUE
    ELSE Cardinality({i \in 1..Len(siblings) :
            /\ siblings[i].repo = stage.repo
            /\ siblings[i].id # stage.id
            /\ siblings[i].id < stage.id}) < stage.limit

withinLimits(stage, siblings) ==
    IF stage.limit = 0 THEN TRUE
    ELSE Cardinality({i \in 1..Len(siblings) :
            /\ siblings[i].repo = stage.repo
            /\ siblings[i].id # stage.id
            /\ siblings[i].name = stage.name
            /\ siblings[i].id < stage.id}) < stage.limit

\* The sibling loop of withinBranchLimits, from sibling i on: the first sibling of
\* another build of the repository decides when both builds are of master.
RECURSIVE BranchScan(_, _, _)
BranchScan(stage, siblings, i) ==
    IF i > Len(siblings) THEN TRUE
    ELSE IF siblings[i].build = stage.build \/ siblings[i].repo # stage.repo
         THEN BranchScan(stage, siblings, i + 1)
         ELSE IF siblings[i].bsource = "master" /\ stage.bsource = "master"
              THEN stage.build < siblings[i].build
              ELSE BranchScan(stage, siblings, i + 1)

\* withinBranchLimits without the comparison of the build ids.
withinBranchLimitsNoOrder(stage, siblings) == TRUE

withinBranchLimits(stage, siblings) ==
    IF stage.bstatus = StatusRunning THEN TRUE
    ELSE BranchScan(stage, siblings, 1)

\* The filters at the head of the item loop without the test of item.Machine.
EligibleNoMachine(item, siblings) ==
    /\ withinBranchLimits(item, siblings)
    /\ item.status # StatusRunning
    /\ withinLimits(item, siblings)

\* The four filters at the head of the item loop of signal.
Eligible(item, siblings) ==
    /\ withinBranchLimits(item, siblings)
    /\ item.status # StatusRunning
    /\ item.machine = ""
    /\ withinLimits(item, siblings)

\* ------------------------------------------------------ Queue: callers
\* The capacity of the q.ready channel.
ReadyCap == 1

\* A send on q.ready that is made whatever the channel holds.
TrySendAlways(n) == n + 1

\* select { case q.ready <- struct{}{}: default: } on a channel that holds n
\* values: the send is made when there is room, and dropped when there is none.
TrySend(n) == IF n < ReadyCap THEN n + 1 ELSE n

\* Schedule: a non-blocking send on q.ready.
Schedule ==
    /\ ready' = TrySend(ready)
    /\ UNCHANGED <<storeVars, mutex, paused, workers, wfilter, rpc, got, dispVars, adminpc, mgrVars>>

Pause ==
    /\ mutex = "none"
    /\ paused' = TRUE
    /\ UNCHANGED <<storeVars, mutex, ready, workers, wfilter, rpc, got, dispVars, adminpc, mgrVars>>

\* Resume, first half: clear the flag under the mutex.
ResumeClear ==
    /\ adminpc = "idle"
    /\ mutex = "none"
    /\ paused' = FALSE
    /\ adminpc' = "notify"
    /\ UNCHANGED <<storeVars, mutex, ready, workers, wfilter, rpc, got, dispVars, mgrVars>>

\* Resume, second half: the non-blocking send on q.ready.
ResumeNotify ==
    /\ adminpc = "notify"
    /\ ready' = TrySend(ready)
    /\ adminpc' = "idle"
    /\ UNCHANGED <<storeVars, mutex, paused, workers, wfilter, rpc, got, dispVars, mgrVars>>

\* Request: build the worker and add it to the waiting set under the mutex.
ReqRegister(w, f) ==
    /\ rpc[w] = "idle"
    /\ mutex = "none"
    /\ workers' = workers \cup {w}
    /\ wfilter' = [wfilter EXCEPT ![w] = f]
    /\ rpc' = [rpc EXCEPT ![w] = "notify"]
    /\ UNCHANGED <<storeVars, mutex, ready, paused, got, dispVars, adminpc, mgrVars>>

\* Request: the non-blocking send on q.ready.
ReqNotify(w) ==
    /\ rpc[w] = "notify"
    /\ ready' = TrySend(ready)
    /\ rpc' = [rpc EXCEPT ![w] = "select"]
    /\ UNCHANGED <<storeVars, mutex, paused, workers, wfilter, got, dispVars, adminpc, mgrVars>>

\* Request: the select takes the ctx.Done() case (the caller's context was cancelled).
ReqCtxDone(w) ==
    /\ rpc[w] = "select"
    /\ rpc' = [rpc EXCEPT ![w] = "cancel_lock"]
    /\ UNCHANGED <<storeVars, mutex, ready, paused, workers, wfilter, got, dispVars, adminpc, mgrVars>>

\* The cancellation branch returning ctx.Err() without deleting the worker.
ReqCancelReturnOnly(w) ==
    /\ rpc[w] = "cancel_lock"
    /\ mutex = "none"
    /\ rpc' = [rpc EXCEPT ![w] = "ret_cancel"]
    /\ UNCHANGED <<storeVars, mutex, ready, paused, workers, wfilter, got, dispVars, adminpc, mgrVars>>

\* The cancellation branch deleting the worker without taking the mutex.
ReqCancelRemoveNoLock(w) ==
    /\ rpc[w] = "cancel_lock"
    /\ workers' = workers \ {w}
    /\ rpc' = [rpc EXCEPT ![w] = "ret_cancel"]
    /\ UNCHANGED <<storeVars, mutex, ready, paused, wfilter, got, dispVars, adminpc, mgrVars>>

\* Request: the cancellation branch takes the mutex, deletes the worker and returns ctx.Err().
ReqCancelRemove(w) ==
    /\ rpc[w] = "cancel_lock"
    /\ mutex = "none"
    /\ workers' = workers \ {w}
    /\ rpc' = [rpc EXCEPT ![w] = "ret_cancel"]
    /\ UNCHANGED <<storeVars, mutex, ready, paused, wfilter, got, dispVars, adminpc, mgrVars>>

\* ------------------------------------------------ Queue: dispatch loop
\* start: the select receives from q.ready and calls signal.
StartReady ==
    /\ dpc = "idle"
    /\ ready > 0
    /\ ready' = ready - 1
    /\ dpc' = "check"
    /\ UNCHANGED <<storeVars, mutex, paused, workers, wfilter, rpc, got, items, idx, target, passHanded, adminpc, mgrVars>>

\* start: the interval timer fires and signal is called.
StartTick ==
    /\ dpc = "idle"
    /\ dpc' = "check"
    /\ UNCHANGED <<storeVars, queueVars, items, idx, target, passHanded, adminpc, mgrVars>>

\* signal: read count and paused under the mutex; return when paused or nobody waits.
SignalCheck ==
    /\ dpc = "check"
    /\ mutex = "none"
    /\ dpc' = IF paused \/ Cardinality(workers) = 0 THEN "idle" ELSE "list"
    /\ UNCHANGED <<storeVars, queueVars, items, idx, target, passHanded, adminpc, mgrVars>>

\* signal: ListIncomplete succeeds.
SignalList ==
    /\ dpc = "list"
    /\ items' = ListIncomplete
    /\ dpc' = "lock"
    /\ UNCHANGED <<storeVars, queueVars, idx, target, passHanded, adminpc, mgrVars>>

\* ListIncomplete fails and start returns with the error of signal.
SignalListErrStops ==
    /\ dpc = "list"
    /\ dpc' = "stopped"
    /\ UNCHANGED <<storeVars, queueVars, items, idx, target, passHanded, adminpc, mgrVars>>

\* signal: ListIncomplete fails; signal returns the error to start.
SignalListErr ==
    /\ dpc = "list"
    /\ dpc' = "failed"
    /\ UNCHANGED <<storeVars, queueVars, items, idx, target, passHanded, adminpc, mgrVars>>

\* start: the error signal returned is printed and the loop goes back to its select.
StartLogged ==
    /\ dpc = "failed"
    /\ dpc' = "idle"
    /\ UNCHANGED <<storeVars, queueVars, items, idx, target, passHanded, adminpc, mgrVars>>

\* signal: take the mutex for the pass (released by the deferred Unlock).
SignalLock ==
    /\ dpc = "lock"
    /\ mutex = "none"
    /\ mutex' = "signal"
    /\ idx' = 1
    /\ passHanded' = <<>>
    /\ dpc' = "loop"
    /\ UNCHANGED <<storeVars, ready, paused, workers, wfilter, rpc, got, items, target, adminpc, mgrVars>>

\* signal: the item is filtered out.
SignalSkip ==
    /\ dpc = "loop"
    /\ idx <= Len(items)
    /\ ~Eligible(items[idx], items)
    /\ idx' = idx + 1
    /\ UNCHANGED <<storeVars, queueVars, dpc, items, target, passHanded, adminpc, mgrVars>>

\* signal: the item is eligible and no waiting worker fits it.
SignalNoWorker ==
    /\ dpc = "loop"
    /\ idx <= Len(items)
    /\ Eligible(items[idx], items)
    /\ \A w \in workers : ~Matches(items[idx], wfilter[w])
    /\ idx' = idx + 1
    /\ UNCHANGED <<storeVars, queueVars, dpc, items, target, passHanded, adminpc, mgrVars>>

\* signal: the range over q.workers (in any order) reaches a worker that fits
\* and the pass starts the send on its channel.
SignalOffer(w) ==
    /\ dpc = "loop"
    /\ idx <= Len(items)
    /\ Eligible(items[idx], items)
    /\ w \in workers
    /\ Matches(items[idx], wfilter[w])
    /\ target' = w
    /\ dpc' = "send"
    /\ UNCHANGED <<storeVars, queueVars, items, idx, passHanded, adminpc, mgrVars>>

\* The rendezvous on w.channel: Request's select takes the stage and returns it.
Deliver(w) ==
    /\ dpc = "send"
    /\ target = w
    /\ rpc[w] = "select"
    /\ rpc' = [rpc EXCEPT ![w] = "got"]
    /\ got' = [got EXCEPT ![w] = items[idx].id]
    /\ dpc' = "sent"
    /\ UNCHANGED <<storeVars, mutex, ready, paused, workers, wfilter, items, idx, target, passHanded, adminpc, mgrVars>>

\* After the send the worker is deleted and the worker loop goes on with the
\* same item (no break).
SignalDeleteNoBreak ==
    /\ dpc = "sent"
    /\ workers' = workers \ {target}
    /\ passHanded' = Append(passHanded, <<items[idx].id, target>>)
    /\ target' = 0
    /\ dpc' = "loop"
    /\ UNCHANGED <<storeVars, mutex, ready, paused, wfilter, rpc, got, items, idx, adminpc, mgrVars>>

\* After the send the pass also marks the stage as taken in the store.
SignalDeleteAssign ==
    /\ dpc = "sent"
    /\ workers' = workers \ {target}
    /\ passHanded' = Append(passHanded, <<items[idx].id, target>>)
    /\ stages' = [stages EXCEPT ![items[idx].id].machine = "queue"]
    /\ idx' = idx + 1
    /\ target' = 0
    /\ dpc' = "loop"
    /\ UNCHANGED <<builds, steps, now, fleet, mutex, ready, paused, wfilter, rpc, got, items, adminpc, mgrVars>>

\* signal: after the send, delete the worker and break out of the worker loop.
SignalDelete ==
    /\ dpc = "sent"
    /\ workers' = workers \ {target}
    /\ passHanded' = Append(passHanded, <<items[idx].id, target>>)
    /\ idx' = idx + 1
    /\ target' = 0
    /\ dpc' = "loop"
    /\ UNCHANGED <<storeVars, mutex, ready, paused, wfilter, rpc, got, items, adminpc, mgrVars>>

\* signal: the item loop is over; the deferred Unlock runs and signal returns
\* (its locals, the fetched list among them, are gone).
SignalDone ==
    /\ dpc = "loop"
    /\ idx > Len(items)
    /\ mutex' = "none"
    /\ dpc' = "idle"
    /\ items' = <<>>
    /\ idx' = 1
    /\ passHanded' = <<>>
    /\ UNCHANGED <<storeVars, ready, paused, workers, wfilter, rpc, got, target, adminpc, mgrVars>>

NextRequest ==
    \/ \E w \in Workers, f \in fleet : ReqRegister(w, f)
    \/ \E w \in Workers : ReqNotify(w)
    \/ \E w \in Workers : ReqCtxDone(w)
    \/ \E w \in Workers : ReqCancelRemove(w)

NextDispatch ==
    \/ StartReady
    \/ StartTick
    \/ SignalCheck
    \/ SignalList
    \/ SignalListErr
    \/ StartLogged
    \/ SignalLock
    \/ SignalSkip
    \/ SignalNoWorker
    \/ \E w \in Workers : SignalOffer(w)
    \/ \E w \in Workers : Deliver(w)
    \/ SignalDelete
    \/ SignalDone

\* ------------------------------------------------------ Manager.Accept
MachineNames == <<"m1", "m2", "m3", "m4", "m5">>

\* The machine name agent w passes to Accept.
MachineOf(w) == MachineNames[w]

\* StageStore.Update: the optimistic update lets a write through only when the
\* row still has the version the writer read.
StageUpdateApplies(id, row) == stages[id].version = row.version

\* The row StageStore.Update leaves in the store.
StageWritten(row) == [row EXCEPT !.version = @ + 1]

\* Accept's test of the row it read: the stage is already assigned.
AlreadyAssigned(row) == row.machine # ""

\* Accept without the test of stage.Machine.
AcceptFindNoCheck(w) ==
    /\ rpc[w] = "got"
    /\ apc[w] = "idle"
    /\ IF got[w] \notin StageIds
       THEN apc' = [apc EXCEPT ![w] = "notfound"] /\ UNCHANGED acopy
       ELSE /\ apc' = [apc EXCEPT ![w] = "found"]
            /\ acopy' = [acopy EXCEPT ![w] = stages[got[w]]]
    /\ UNCHANGED <<storeVars, queueVars, dispVars, adminpc, cancelVars, watchVars, afterVars>>

\* Accept: Stages.Find, then the test of stage.Machine.
AcceptFind(w) ==
    /\ rpc[w] = "got"
    /\ apc[w] = "idle"
    /\ IF got[w] \notin StageIds
       THEN apc' = [apc EXCEPT ![w] = "notfound"] /\ UNCHANGED acopy
       ELSE IF AlreadyAssigned(stages[got[w]])
            THEN apc' = [apc EXCEPT ![w] = "lock"] /\ UNCHANGED acopy
            ELSE /\ apc' = [apc EXCEPT ![w] = "found"]
                 /\ acopy' = [acopy EXCEPT ![w] = stages[got[w]]]
    /\ UNCHANGED <<storeVars, queueVars, dispVars, adminpc, cancelVars, watchVars, afterVars>>

\* The row with the machine set and the status set to running.
AcceptedRowRunning(row, w) ==
    [row EXCEPT !.machine = MachineOf(w), !.status = StatusRunning, !.updated = now]

\* The row Accept hands to Stages.Update.
AcceptedRow(row, w) ==
    [row EXCEPT !.machine = MachineOf(w), !.status = StatusPending, !.updated = now]

\* Accept: set machine, status and updated, then Stages.Update; its result is returned.
AcceptUpdate(w) ==
    /\ apc[w] = "found"
    /\ IF StageUpdateApplies(got[w], acopy[w])
       THEN /\ stages' = [stages EXCEPT ![got[w]] = StageWritten(AcceptedRow(acopy[w], w))]
            /\ apc' = [apc EXCEPT ![w] = "ok"]
       ELSE /\ apc' = [apc EXCEPT ![w] = "lock"]
            /\ UNCHANGED stages
    /\ UNCHANGED <<builds, steps, now, fleet, queueVars, dispVars, adminpc, acopy, cancelVars, watchVars, afterVars>>

NextAccept ==
    \/ \E w \in Workers : AcceptFind(w)
    \/ \E w \in Workers : AcceptUpdate(w)

\* ------------------------------------------------------ Manager.Cancel
\* Two successive readings of time.Now().Unix(): the second is the first or a second later.
Later(t) == {u \in {t, t + 1} : u <= MaxTime}

\* The steps of stage s as StageStore.ListSteps embeds them, in id order.
StepsOf(s) ==
    LET ids == SortedSeq({k \in DOMAIN steps : steps[k].stage = s})
    IN [i \in 1..Len(ids) |-> [id |-> ids[i], row |-> steps[ids[i]]]]

\* StageStore.ListSteps: the stages of build b with their steps, in id order.
ListSteps(b) ==
    LET ids == SortedSeq({s \in StageIds : stages[s].build = b})
    IN [i \in 1..Len(ids) |-> [id |-> ids[i], row |-> stages[ids[i]], steps |-> StepsOf(ids[i])]]

NoBuild == [id |-> 0, status |-> "", source |-> "", repo |-> 0, started |-> 0, finished |-> 0]

BuildOf(b) ==
    [id |-> b, status |-> builds[b].status, source |-> builds[b].source,
     repo |-> builds[b].repo, started |-> builds[b].started, finished |-> builds[b].finished]

BuildRowOf(c) ==
    [status |-> c.status, source |-> c.source, repo |-> c.repo,
     started |-> c.started, finished |-> c.finished]

\* The handler reads the build (builds.FindNumber) and calls Manager.Cancel with it.
CancelCall(b, u) ==
    /\ cpc \in {"idle", "done"}
    /\ cleft > 0
    /\ cleft' = cleft - 1
    /\ cb' = BuildOf(b)
    /\ cuser' = u
    /\ cres' = "none"
    /\ cstages' = <<>>
    /\ clisted' = <<>>
    /\ ci' = 1
    /\ cj' = 1
    /\ cpre' = [builds |-> builds, stages |-> stages, steps |-> steps,
                cancelled |-> cancelled, statusSent |-> statusSent, webhookSent |-> webhookSent]
    /\ cpc' = "check"
    /\ cfail' = {}
    /\ UNCHANGED <<storeVars, queueVars, dispVars, adminpc, accVars, cancelled, statusSent, webhookSent, watchVars, afterVars>>

\* The first test of Cancel, with IsDone in place of the two comparisons.
RejectsDone(status) == IsDone(status)

\* The first test of Cancel: the build is neither pending nor running.
Rejects(status) == status # StatusPending /\ status # StatusRunning

\* Cancel returns "cannot cancel completed build".
CancelReject ==
    /\ cpc = "check"
    /\ Rejects(cb.status)
    /\ cres' = "completed"
    /\ cpc' = "done"
    /\ UNCHANGED <<storeVars, queueVars, dispVars, adminpc, accVars, cb, cuser, cstages, clisted, ci, cj, cpre, cleft, cfail, cancelled, statusSent, webhookSent, watchVars, afterVars>>

\* The build as Cancel changes it: killed, finished now, started now when it was 0
\* (t2 is the second reading of the clock).
KilledBuild(c, t1, t2) ==
    [c EXCEPT !.status = StatusKilled, !.finished = t1,
              !.started = IF c.started = 0 THEN t2 ELSE @]

\* Cancel changes the build and Builds.Update persists it.
CancelBuildOk ==
    /\ cpc = "check"
    /\ ~Rejects(cb.status)
    /\ \E t2 \in Later(now) :
         /\ cb.started # 0 => t2 = now
         /\ cb' = KilledBuild(cb, now, t2)
         /\ builds' = [builds EXCEPT ![cb.id] = BuildRowOf(KilledBuild(cb, now, t2))]
         /\ now' = t2
    /\ cpc' = "signal"
    /\ UNCHANGED <<stages, steps, fleet, queueVars, dispVars, adminpc, accVars, cuser, cstages, clisted, ci, cj, cres, cpre, cleft, cfail, cancelled, statusSent, webhookSent, watchVars, afterVars>>

\* Builds.Update fails and Cancel goes on to Scheduler.Cancel all the same.
CancelBuildErrGoesOn ==
    /\ cpc = "check"
    /\ ~Rejects(cb.status)
    /\ cb' = KilledBuild(cb, now, now)
    /\ cfail' = cfail \cup {"build"}
    /\ cpc' = "signal"
    /\ UNCHANGED <<storeVars, queueVars, dispVars, adminpc, accVars, cuser, cstages, clisted, ci, cj, cres, cpre, cleft, cancelled, statusSent, webhookSent, watchVars, afterVars>>

\* Builds.Update fails: Cancel returns "cannot update build status to cancelled".
CancelBuildErr ==
    /\ cpc = "check"
    /\ ~Rejects(cb.status)
    /\ cb' = KilledBuild(cb, now, now)
    /\ cres' = "err_build"
    /\ cpc' = "done"
    /\ cfail' = cfail \cup {"build"}
    /\ UNCHANGED <<storeVars, queueVars, dispVars, adminpc, accVars, cuser, cstages, clisted, ci, cj, cpre, cleft, cancelled, statusSent, webhookSent, watchVars, afterVars>>

\* Scheduler.Cancel(build.ID) records the cancellation.
CancelSignalOk ==
    /\ cpc = "signal"
    /\ cancelled' = cancelled \cup {cb.id}
    /\ cpc' = "status"
    /\ UNCHANGED <<storeVars, queueVars, dispVars, adminpc, accVars, cb, cuser, cstages, clisted, ci, cj, cres, cpre, cleft, cfail, statusSent, webhookSent, watchVars, afterVars>>

\* Scheduler.Cancel fails: Cancel returns "cannot signal cancelled build is complete".
CancelSignalErr ==
    /\ cpc = "signal"
    /\ cres' = "err_signal"
    /\ cpc' = "done"
    /\ cfail' = cfail \cup {"signal"}
    /\ UNCHANGED <<storeVars, queueVars, dispVars, adminpc, accVars, cb, cuser, cstages, clisted, ci, cj, cpre, cleft, cancelled, statusSent, webhookSent, watchVars, afterVars>>

\* No user was passed: no status is sent.
CancelStatusSkip ==
    /\ cpc = "status"
    /\ ~cuser
    /\ cpc' = "list"
    /\ UNCHANGED <<storeVars, queueVars, dispVars, adminpc, accVars, cb, cuser, cstages, clisted, ci, cj, cres, cpre, cleft, cfail, cancelled, statusSent, webhookSent, watchVars, afterVars>>

\* Status.Send succeeds.
CancelStatusOk ==
    /\ cpc = "status"
    /\ cuser
    /\ statusSent' = statusSent \cup {cb.id}
    /\ cpc' = "list"
    /\ UNCHANGED <<storeVars, queueVars, dispVars, adminpc, accVars, cb, cuser, cstages, clisted, ci, cj, cres, cpre, cleft, cfail, cancelled, webhookSent, watchVars, afterVars>>

\* Status.Send fails: Cancel returns "cannot set status".
CancelStatusErr ==
    /\ cpc = "status"
    /\ cuser
    /\ cres' = "err_status"
    /\ cpc' = "done"
    /\ cfail' = cfail \cup {"status"}
    /\ UNCHANGED <<storeVars, queueVars, dispVars, adminpc, accVars, cb, cuser, cstages, clisted, ci, cj, cpre, cleft, cancelled, statusSent, webhookSent, watchVars, afterVars>>

\* Stages.ListSteps returns the stages of the build.
CancelListOk ==
    /\ cpc = "list"
    /\ cstages' = ListSteps(cb.id)
    /\ clisted' = ListSteps(cb.id)
    /\ ci' = 1
    /\ cpc' = "stages"
    /\ UNCHANGED <<storeVars, queueVars, dispVars, adminpc, accVars, cb, cuser, cj, cres, cpre, cleft, cfail, cancelled, statusSent, webhookSent, watchVars, afterVars>>

\* Stages.ListSteps fails: Cancel returns "cannot list build stages".
CancelListErr ==
    /\ cpc = "list"
    /\ cres' = "err_list"
    /\ cpc' = "done"
    /\ cfail' = cfail \cup {"list"}
    /\ UNCHANGED <<storeVars, queueVars, dispVars, adminpc, accVars, cb, cuser, cstages, clisted, ci, cj, cpre, cleft, cancelled, statusSent, webhookSent, watchVars, afterVars>>

\* The stage loop: a stage that is done is passed over, with its steps.
CancelStageSkip ==
    /\ cpc = "stages"
    /\ ci <= Len(cstages)
    /\ IsDone(cstages[ci].row.status)
    /\ ci' = ci + 1
    /\ UNCHANGED <<storeVars, queueVars, dispVars, adminpc, accVars, cpc, cb, cuser, cstages, clisted, cj, cres, cpre, cleft, cfail, cancelled, statusSent, webhookSent, watchVars, afterVars>>

\* A stage or step row as Cancel changes it: killed when it had started, else
\* skipped and started at t1; stopped at t2.
KilledRow(row, t1, t2) ==
    IF row.started # 0
    THEN [row EXCEPT !.status = StatusKilled, !.stopped = t2]
    ELSE [row EXCEPT !.status = StatusSkipped, !.started = t1, !.stopped = t2]

\* The stage loop: the stage is changed and Stages.Update persists it.
CancelStageOk ==
    /\ cpc = "stages"
    /\ ci <= Len(cstages)
    /\ ~IsDone(cstages[ci].row.status)
    /\ StageUpdateApplies(cstages[ci].id, cstages[ci].row)
    /\ \E t2 \in Later(now) :
         /\ cstages[ci].row.started # 0 => t2 = now
         /\ stages' = [stages EXCEPT ![cstages[ci].id] =
                          StageWritten(KilledRow(cstages[ci].row, now, t2))]
         /\ cstages' = [cstages EXCEPT ![ci].row = StageWritten(KilledRow(cstages[ci].row, now, t2))]
         /\ now' = t2
    /\ cj' = 1
    /\ cpc' = "steps"
    /\ UNCHANGED <<builds, steps, fleet, queueVars, dispVars, adminpc, accVars, cb, cuser, clisted, ci, cres, cpre, cleft, cfail, cancelled, statusSent, webhookSent, watchVars, afterVars>>

\* Stages.Update fails (the row changed since it was listed, or the store is
\* down): Cancel returns "cannot update stage status".
CancelStageErr ==
    /\ cpc = "stages"
    /\ ci <= Len(cstages)
    /\ ~IsDone(cstages[ci].row.status)
    /\ cstages' = [cstages EXCEPT ![ci].row = KilledRow(cstages[ci].row, now, now)]
    /\ cres' = "err_stage"
    /\ cpc' = "done"
    /\ cfail' = cfail \cup {"stage"}
    /\ UNCHANGED <<storeVars, queueVars, dispVars, adminpc, accVars, cb, cuser, clisted, ci, cj, cpre, cleft, cancelled, statusSent, webhookSent, watchVars, afterVars>>

\* The step loop: a step that is done is passed over.
CancelStepSkip ==
    /\ cpc = "steps"
    /\ cj <= Len(cstages[ci].steps)
    /\ IsDone(cstages[ci].steps[cj].row.status)
    /\ cj' = cj + 1
    /\ UNCHANGED <<storeVars, queueVars, dispVars, adminpc, accVars, cpc, cb, cuser, cstages, clisted, ci, cres, cpre, cleft, cfail, cancelled, statusSent, webhookSent, watchVars, afterVars>>

\* The exit code Cancel gives a step.
CancelExitCode == 130

\* A step changed as a stage is, its exit code left as it was.
KilledStepNoExit(row, t1, t2) == KilledRow(row, t1, t2)

\* A step as Cancel changes it: as a stage, and its exit code set.
KilledStep(row, t1, t2) == [KilledRow(row, t1, t2) EXCEPT !.exit_code = CancelExitCode]

\* The step loop: the step is changed and Steps.Update persists it.
CancelStepOk ==
    /\ cpc = "steps"
    /\ cj <= Len(cstages[ci].steps)
    /\ ~IsDone(cstages[ci].steps[cj].row.status)
    /\ \E t2 \in Later(now) :
         LET old == cstages[ci].steps[cj].row
             new == KilledStep(old, now, t2)
         IN /\ old.started # 0 => t2 = now
            /\ steps' = [steps EXCEPT ![cstages[ci].steps[cj].id] = new]
            /\ cstages' = [cstages EXCEPT ![ci].steps[cj].row = new]
            /\ now' = t2
    /\ cj' = cj + 1
    /\ UNCHANGED <<builds, stages, fleet, queueVars, dispVars, adminpc, accVars, cpc, cb, cuser, clisted, ci, cres, cpre, cleft, cfail, cancelled, statusSent, webhookSent, watchVars, afterVars>>

\* Steps.Update fails: Cancel returns "cannot update step status".
CancelStepErr ==
    /\ cpc = "steps"
    /\ cj <= Len(cstages[ci].steps)
    /\ ~IsDone(cstages[ci].steps[cj].row.status)
    /\ cres' = "err_step"
    /\ cpc' = "done"
    /\ cfail' = cfail \cup {"step"}
    /\ UNCHANGED <<storeVars, queueVars, dispVars, adminpc, accVars, cb, cuser, cstages, clisted, ci, cj, cpre, cleft, cancelled, statusSent, webhookSent, watchVars, afterVars>>

\* The step loop of the stage is over: on to the next stage.
CancelStepsDone ==
    /\ cpc = "steps"
    /\ cj > Len(cstages[ci].steps)
    /\ ci' = ci + 1
    /\ cpc' = "stages"
    /\ UNCHANGED <<storeVars, queueVars, dispVars, adminpc, accVars, cb, cuser, cstages, clisted, cj, cres, cpre, cleft, cfail, cancelled, statusSent, webhookSent, watchVars, afterVars>>

\* The stage loop is over: Webhook.Send succeeds and Cancel returns nil.
CancelWebhookOk ==
    /\ cpc = "stages"
    /\ ci > Len(cstages)
    /\ webhookSent' = webhookSent \cup {cb.id}
    /\ cres' = "ok"
    /\ cpc' = "done"
    /\ UNCHANGED <<storeVars, queueVars, dispVars, adminpc, accVars, cb, cuser, cstages, clisted, ci, cj, cpre, cleft, cfail, cancelled, statusSent, watchVars, afterVars>>

\* Webhook.Send fails and Cancel returns the failure.
CancelWebhookErrReturned ==
    /\ cpc = "stages"
    /\ ci > Len(cstages)
    /\ cres' = "err_webhook"
    /\ cfail' = cfail \cup {"webhook"}
    /\ cpc' = "done"
    /\ UNCHANGED <<storeVars, queueVars, dispVars, adminpc, accVars, cb, cuser, cstages, clisted, ci, cj, cpre, cleft, cancelled, statusSent, webhookSent, watchVars, afterVars>>

\* Webhook.Send fails: the failure is logged and Cancel returns nil.
CancelWebhookErr ==
    /\ cpc = "stages"
    /\ ci > Len(cstages)
    /\ cres' = "ok"
    /\ cpc' = "done"
    /\ cfail' = cfail \cup {"webhook"}
    /\ UNCHANGED <<storeVars, queueVars, dispVars, adminpc, accVars, cb, cuser, cstages, clisted, ci, cj, cpre, cleft, cancelled, statusSent, webhookSent, watchVars, afterVars>>

NextCancel ==
    \/ \E b \in BuildIds, u \in BOOLEAN : CancelCall(b, u)
    \/ CancelReject
    \/ CancelBuildOk
    \/ CancelBuildErr
    \/ CancelSignalOk
    \/ CancelSignalErr
    \/ CancelStatusSkip
    \/ CancelStatusOk
    \/ CancelStatusErr
    \/ CancelListOk
    \/ CancelListErr
    \/ CancelStageSkip
    \/ CancelStageOk
    \/ CancelStageErr
    \/ CancelStepSkip
    \/ CancelStepOk
    \/ CancelStepErr
    \/ CancelStepsDone
    \/ CancelWebhookOk
    \/ CancelWebhookErr

\* ------------------------------------------------------- Manager.Watch
\* Scheduler.Cancelled(stage id): was a cancellation signalled for the stage's build?
Cancelled(s) == s \in StageIds /\ stages[s].build \in cancelled

NoWatch == [sid |-> 0, signalled |-> FALSE, found |-> FALSE, isdone |-> FALSE,
            ret |-> FALSE, err |-> "none"]

\* Watch: Scheduler.Cancelled answers without an error.
WatchCancelled(s) ==
    /\ wpc \in {"idle", "done"}
    /\ wres' = [NoWatch EXCEPT !.sid = s, !.signalled = Cancelled(s)]
    /\ wpc' = "find"
    /\ UNCHANGED <<storeVars, queueVars, dispVars, adminpc, accVars, cancelVars, afterVars>>

\* Watch: Scheduler.Cancelled returns an error (the caller's context ended);
\* Watch returns it.
WatchCancelledErr(s) ==
    /\ wpc \in {"idle", "done"}
    /\ wres' = [NoWatch EXCEPT !.sid = s, !.err = "cancelled_err"]
    /\ wpc' = "done"
    /\ UNCHANGED <<storeVars, queueVars, dispVars, adminpc, accVars, cancelVars, afterVars>>

\* What Watch returns once Stages.Find has answered: on err == nil it returns
\* (ok, err), ok being what Scheduler.Cancelled said; else stage.IsDone() of
\* the value Find returned beside its error (r: whatever that value holds).
WatchResult(signalled, found, isdone, r) == IF found THEN signalled ELSE r

\* Watch: Stages.Find, then the return.
WatchFind ==
    /\ wpc = "find"
    /\ \E r \in BOOLEAN :
         LET found == wres.sid \in StageIds
             isdone == found /\ IsDone(stages[wres.sid].status)
         IN wres' = [wres EXCEPT !.found = found, !.isdone = isdone,
                                 !.ret = WatchResult(wres.signalled, found, isdone, r),
                                 !.err = "nil"]
    /\ wpc' = "done"
    /\ UNCHANGED <<storeVars, queueVars, dispVars, adminpc, accVars, cancelVars, afterVars>>

NextWatch ==
    \/ \E s \in 1..(NumStages + 1) : WatchCancelled(s)
    \/ \E s \in 1..(NumStages + 1) : WatchCancelledErr(s)
    \/ WatchFind

\* ------------------------------------------------------- Manager.After
NoAfter == [pc |-> "idle", step |-> 0, status |-> "", tried |-> {}, failed |-> {}, errs |-> {}]

\* The agent calls After with a step it ran, now passing or failing.
AfterCall(k, st) ==
    /\ after.pc \in {"idle", "done"}
    /\ steps[k].status = StatusRunning
    /\ after' = [NoAfter EXCEPT !.pc = "update", !.step = k, !.status = st]
    /\ UNCHANGED <<storeVars, queueVars, dispVars, adminpc, accVars, cancelVars, watchVars, logz>>

\* The step as the updater persists it.
UpdatedStep(row, st) ==
    [row EXCEPT !.status = st, !.stopped = now,
                !.exit_code = IF st = StatusPassing THEN 0 ELSE 1]

\* updater.do succeeds: the step is persisted.
AfterUpdateOk ==
    /\ after.pc = "update"
    /\ steps' = [steps EXCEPT ![after.step] = UpdatedStep(@, after.status)]
    /\ after' = [after EXCEPT !.pc = "delete", !.tried = @ \cup {"updater"}]
    /\ UNCHANGED <<builds, stages, now, fleet, queueVars, dispVars, adminpc, accVars, cancelVars, watchVars, logz>>

\* updater.do fails: its error is appended to errs and After goes on.
AfterUpdateErr ==
    /\ after.pc = "update"
    /\ after' = [after EXCEPT !.pc = "delete", !.tried = @ \cup {"updater"},
                               !.failed = @ \cup {"updater"}, !.errs = @ \cup {"updater"}]
    /\ UNCHANGED <<storeVars, queueVars, dispVars, adminpc, accVars, cancelVars, watchVars, logz>>

\* Logz.Delete succeeds: the live log stream of the step is gone; After returns errs.
AfterDeleteOk ==
    /\ after.pc = "delete"
    /\ logz' = logz \ {after.step}
    /\ after' = [after EXCEPT !.pc = "done", !.tried = @ \cup {"logz"}]
    /\ UNCHANGED <<storeVars, queueVars, dispVars, adminpc, accVars, cancelVars, watchVars>>

\* Logz.Delete fails: the failure is logged; After returns errs as it was.
AfterDeleteErr ==
    /\ after.pc = "delete"
    /\ after' = [after EXCEPT !.pc = "done", !.tried = @ \cup {"logz"},
                               !.failed = @ \cup {"logz"}]
    /\ UNCHANGED <<storeVars, queueVars, dispVars, adminpc, accVars, cancelVars, watchVars, logz>>

NextAfter ==
    \/ \E k \in DOMAIN steps, st \in {StatusPassing, StatusFailing} : AfterCall(k, st)
    \/ AfterUpdateOk
    \/ AfterUpdateErr
    \/ AfterDeleteOk
    \/ AfterDeleteErr

\* ------------------------------------------------------------ initial states
InitQueueState ==
    /\ mutex = "none"
    /\ ready = 0
    /\ paused = FALSE
    /\ workers = {}
    /\ wfilter = [w \in Workers |-> DefaultPlatform]
    /\ rpc = [w \in Workers |-> "idle"]
    /\ got = [w \in Workers |-> 0]
    /\ dpc = "idle"
    /\ items = <<>>
    /\ idx = 1
    /\ target = 0
    /\ passHanded = <<>>
    /\ adminpc = "idle"

NoRow == [version |-> 0]

NoPre == [builds |-> <<>>, stages |-> <<>>, steps |-> <<>>,
          cancelled |-> {}, statusSent |-> {}, webhookSent |-> {}]

InitManagerState ==
    /\ apc = [w \in Workers |-> "idle"]
    /\ acopy = [w \in Workers |-> NoRow]
    /\ cpc = "idle"
    /\ cb = NoBuild
    /\ cuser = FALSE
    /\ cstages = <<>>
    /\ clisted = <<>>
    /\ ci = 1
    /\ cj = 1
    /\ cres = "none"
    /\ cpre = NoPre
    /\ cfail = {}
    /\ cancelled = {}
    /\ statusSent = {}
    /\ webhookSent = {}
    /\ wpc = "idle"
    /\ wres = NoWatch
    /\ after = NoAfter

\* sh: [status, machine, started, stopped]
StageRow(b, r, n, l, p, sh) ==
    [build |-> b, repo |-> r, name |-> n, limit |-> l,
     os |-> p.os, arch |-> p.arch, variant |-> p.variant, kernel |-> p.kernel,
     labels |-> p.labels, status |-> sh.status, machine |-> sh.machine,
     started |-> sh.started, stopped |-> sh.stopped, updated |-> 0, version |-> 1]

BuildRow(st, src, r, t0, t1) ==
    [status |-> st, source |-> src, repo |-> r, started |-> t0, finished |-> t1]

Shape(st, m, t0, t1) == [status |-> st, machine |-> m, started |-> t0, stopped |-> t1]

\* A stage nobody accepted yet; one an agent runs; one that passed.
ShapePending == Shape(StatusPending, "", 0, 0)
ShapeAccepted == Shape(StatusPending, "m0", 0, 0)
ShapeRunning == Shape(StatusRunning, "m0", 1, 0)
ShapePassing == Shape(StatusPassing, "m0", 1, 1)

Monotone(f) == \A i, j \in DOMAIN f : i <= j => f[i] <= f[j]

\* Stages are inserted with their build: the stages of an older build have the smaller ids.
StageBuildMaps == {f \in [StageIds -> BuildIds] : Monotone(f)}

\* The queue alone: pending stages of any platform, no limits, no master builds;
\* agents of any platform.
InitPlatforms ==
    /\ InitQueueState
    /\ InitManagerState
    /\ logz = {}
    /\ cleft = 0
    /\ fleet = WorkerProfiles
    /\ now = 1
    /\ steps = <<>>
    /\ builds = [b \in BuildIds |-> BuildRow(StatusPending, "develop", 1, 0, 0)]
    /\ \E pf \in [StageIds -> StageProfiles] :
         stages = [s \in StageIds |-> StageRow(1, 1, "build", 0, pf[s], ShapePending)]

StageNames == {"build", "test"}
MaxLimit == 1

\* A build is running exactly when one of its stages is; stages may be pending or running.
BuildStatusFits(bs, sb, sh) ==
    \A b \in BuildIds :
        (\E s \in StageIds : sb[s] = b /\ sh[s].status = StatusRunning) => bs[b] = StatusRunning

\* The queue alone: stages of one platform that share names and limits.
InitConcurrency ==
    /\ InitQueueState
    /\ InitManagerState
    /\ logz = {}
    /\ cleft = 0
    /\ fleet = {DefaultPlatform}
    /\ now = 1
    /\ steps = <<>>
    /\ \E sb \in StageBuildMaps, rp \in [BuildIds -> Repos], nm \in [StageIds -> StageNames],
          lim \in 1..MaxLimit, sh \in [StageIds -> {ShapePending, ShapeRunning}] :
         /\ rp[1] = 1
         /\ builds = [b \in BuildIds |->
                        BuildRow(IF \E s \in StageIds : sb[s] = b /\ sh[s].status = StatusRunning
                                 THEN StatusRunning ELSE StatusPending,
                                 "develop", rp[b], 0, 0)]
         /\ stages = [s \in StageIds |->
                        StageRow(sb[s], rp[sb[s]], nm[s], lim, DefaultPlatform, sh[s])]

\* The queue alone: builds of master and of another branch, pending or running.
InitBranches ==
    /\ InitQueueState
    /\ InitManagerState
    /\ logz = {}
    /\ cleft = 0
    /\ fleet = {DefaultPlatform}
    /\ now = 1
    /\ steps = <<>>
    /\ \E sb \in StageBuildMaps, rp \in [BuildIds -> Repos],
          src \in [BuildIds -> {"master", "develop"}],
          bs \in [BuildIds -> {StatusPending, StatusRunning}],
          sh \in [StageIds -> {ShapePending, ShapeAccepted, ShapeRunning}] :
         /\ rp[1] = 1
         /\ BuildStatusFits(bs, sb, sh)
         /\ builds = [b \in BuildIds |-> BuildRow(bs[b], src[b], rp[b], 0, 0)]
         /\ stages = [s \in StageIds |->
                        StageRow(sb[s], rp[sb[s]], "build", 0, DefaultPlatform, sh[s])]

InitQueue == InitPlatforms \/ InitConcurrency \/ InitBranches

NextQueue == NextRequest \/ NextDispatch \/ Schedule

SpecQueue == InitQueue /\ [][NextQueue]_vars

\* The queue with its gate: Pause and Resume callers beside the others.
NextPause == NextQueue \/ Pause \/ ResumeClear \/ ResumeNotify

SpecPause == InitQueue /\ [][NextPause]_vars

\* Accept alone: every agent holds a stage id Request returned to it (the queue hands
\* a stage out again as long as the store shows no machine), or an id of no stage.
InitAccept ==
    /\ InitManagerState
    /\ logz = {}
    /\ cleft = 0
    /\ mutex = "none"
    /\ ready = 0
    /\ paused = FALSE
    /\ workers = {}
    /\ wfilter = [w \in Workers |-> DefaultPlatform]
    /\ rpc = [w \in Workers |-> "got"]
    /\ got \in [Workers -> 1..(NumStages + 1)]
    /\ dpc = "idle"
    /\ items = <<>>
    /\ idx = 1
    /\ target = 0
    /\ passHanded = <<>>
    /\ adminpc = "idle"
    /\ fleet = {DefaultPlatform}
    /\ now = 1
    /\ steps = <<>>
    /\ builds = [b \in BuildIds |-> BuildRow(StatusPending, "develop", 1, 0, 0)]
    /\ \E sh \in [StageIds -> {ShapePending, ShapeAccepted}] :
         stages = [s \in StageIds |-> StageRow(1, 1, "build", 0, DefaultPlatform, sh[s])]

SpecAccept == InitAccept /\ [][NextAccept]_vars

\* ------------------------------------------------- the manager's stores
NumSteps == 2
StepIds == 1..NumSteps

StepRow(s, st, t0, t1, code) ==
    [stage |-> s, status |-> st, started |-> t0, stopped |-> t1, exit_code |-> code]

StepShape(st, t0, t1, code) == [status |-> st, started |-> t0, stopped |-> t1, exit_code |-> code]

StepPending == StepShape(StatusPending, 0, 0, 0)
StepRunning == StepShape(StatusRunning, 1, 0, 0)
StepFailing == StepShape(StatusFailing, 1, 1, 1)

\* Steps are inserted with their stage.
StepStageMaps == {f \in [StepIds -> StageIds] : Monotone(f)}

\* A stage that is done has only steps that are done; a stage that has not
\* started has only steps that have not.
StepsFit(ss, sh, ph) ==
    \A k \in StepIds :
        /\ IsDone(sh[ss[k]].status) => IsDone(ph[k].status)
        /\ sh[ss[k]].started = 0 => ph[k].started = 0

\* A build is done exactly when it has stages and all are done; it is running
\* when a stage has started; it is pending or blocked before.
BuildFits(b, st, sb, sh) ==
    LET mine == {s \in StageIds : sb[s] = b}
    IN /\ st = StatusPassing <=> (mine # {} /\ \A s \in mine : IsDone(sh[s].status))
       /\ st = StatusRunning => \E s \in mine : sh[s].started # 0
       /\ st \in {StatusPending, StatusBlocked} => \A s \in mine : sh[s].started = 0

BuildTimes(st) ==
    IF st = StatusPassing THEN <<1, 1>> ELSE IF st = StatusRunning THEN <<1, 0>> ELSE <<0, 0>>

\* The stores of builds, stages and steps: stage shapes from SH, step shapes from
\* PH, build statuses from BS, steps attached by a map of SS.
InitStores(SH, PH, BS, SS) ==
    \E sb \in StageBuildMaps, ss \in SS, sh \in SH, ph \in PH, bs \in [BuildIds -> BS] :
        /\ StepsFit(ss, sh, ph)
        /\ \A b \in BuildIds : BuildFits(b, bs[b], sb, sh)
        /\ builds = [b \in BuildIds |->
                       BuildRow(bs[b], "develop", 1, BuildTimes(bs[b])[1], BuildTimes(bs[b])[2])]
        /\ stages = [s \in StageIds |-> StageRow(sb[s], 1, "build", 0, DefaultPlatform, sh[s])]
        /\ steps = [k \in StepIds |->
                      StepRow(ss[k], ph[k].status, ph[k].started, ph[k].stopped, ph[k].exit_code)]

AllBuildStatuses == {StatusPending, StatusRunning, StatusPassing, StatusBlocked}

\* The users cancel at most this many times.
MaxCancels == 2

\* Cancel alone, on builds in any state.
InitCancel ==
    /\ InitQueueState
    /\ InitManagerState
    /\ logz = {}
    /\ cleft = MaxCancels
    /\ fleet = {DefaultPlatform}
    /\ now = 1
    /\ InitStores([StageIds -> {ShapePending, ShapeRunning, ShapePassing}],
                  [StepIds -> {StepPending, StepRunning, StepFailing}],
                  AllBuildStatuses, StepStageMaps)

SpecCancel == InitCancel /\ [][NextCancel]_vars

\* Every step belongs to the first stage.
StepsOnFirst == {[k \in StepIds |-> 1]}

\* Watch beside Cancel: stages in any state, the steps of the first stage as it is.
InitWatch ==
    /\ InitQueueState
    /\ InitManagerState
    /\ logz = {}
    /\ cleft = 1
    /\ fleet = {DefaultPlatform}
    /\ now = 1
    /\ InitStores([StageIds -> {ShapePending, ShapeRunning, ShapePassing}],
                  {[k \in StepIds |-> StepPending], [k \in StepIds |-> StepRunning],
                   [k \in StepIds |-> StepFailing]},
                  AllBuildStatuses, StepsOnFirst)

SpecWatch == InitWatch /\ [][NextCancel \/ NextWatch]_vars

\* The whole: agents request and accept stages while a user cancels builds. The
\* first stage runs or has passed; the others wait for an agent.
Init ==
    /\ InitQueueState
    /\ InitManagerState
    /\ logz = {}
    /\ cleft = 1
    /\ fleet = {DefaultPlatform}
    /\ now = 1
    /\ InitStores({sh \in [StageIds -> {ShapePending, ShapeRunning, ShapePassing}] :
                      /\ sh[1] # ShapePending
                      /\ \A s \in StageIds \ {1} : sh[s] = ShapePending},
                  {ph \in [StepIds -> {StepRunning, StepFailing}] : ph[1] = StepFailing},
                  {StatusRunning, StatusPending, StatusPassing}, StepsOnFirst)

Next == NextRequest \/ NextDispatch \/ NextAccept \/ NextCancel

Spec == Init /\ [][Next]_vars

\* The queue with a dispatch loop that keeps running: stages of one build, waiting
\* or under way; the queue is never paused and the store answers every read.
InitLive ==
    /\ InitQueueState
    /\ InitManagerState
    /\ logz = {}
    /\ cleft = 0
    /\ fleet = {DefaultPlatform}
    /\ now = 1
    /\ steps = <<>>
    /\ \E sh \in [StageIds -> {ShapePending, ShapeRunning}] :
         /\ builds = [b \in BuildIds |->
                        BuildRow(IF b = 1 /\ \E s \in StageIds : sh[s] = ShapeRunning
                                 THEN StatusRunning ELSE StatusPending,
                                 "develop", 1, 0, 0)]
         /\ stages = [s \in StageIds |-> StageRow(1, 1, "build", 0, DefaultPlatform, sh[s])]

\* The steps of the dispatch loop when ListIncomplete succeeds.
LiveDispatch ==
    \/ StartReady
    \/ StartTick
    \/ SignalCheck
    \/ SignalList
    \/ SignalLock
    \/ SignalSkip
    \/ SignalNoWorker
    \/ \E w \in Workers : SignalOffer(w)
    \/ \E w \in Workers : Deliver(w)
    \/ SignalDelete
    \/ SignalDone

NextLive == NextRequest \/ Schedule \/ LiveDispatch

\* The goroutine of start is never starved: it takes every step it can take (the
\* timer of start fires when no hint arrives), and so does a Request call that
\* has only its hint to post or the mutex to take.
Fairness ==
    /\ WF_vars(LiveDispatch)
    /\ WF_vars(\E w \in Workers : ReqNotify(w))
    /\ WF_vars(\E w \in Workers : ReqCancelRemove(w))

SpecLive == InitLive /\ [][NextLive]_vars /\ Fairness

\* After alone: stages under way with steps that run, wait or are done; every
\* running step has its live log stream.
InitAfter ==
    /\ InitQueueState
    /\ InitManagerState
    /\ cleft = 0
    /\ fleet = {DefaultPlatform}
    /\ now = 1
    /\ InitStores([StageIds -> {ShapeRunning}],
                  [StepIds -> {StepPending, StepRunning, StepFailing}],
                  {StatusRunning, StatusPending}, StepStageMaps)
    /\ logz = {k \in StepIds : steps[k].status = StatusRunning}

SpecAfter == InitAfter /\ [][NextAfter]_vars

\* ================================================================ claims

\* ---- C1 (SpecAccept)
Callers(s) == {w \in Workers : got[w] = s}
Winners(s) == {w \in Workers : got[w] = s /\ apc[w] = "ok"}
AcceptReturned(w) == apc[w] \in {"ok", "lock", "notfound"}

\* C1: of the Accept calls distinct agents make on one stage whose machine was
\* empty, at most one has returned success at any time; once all have returned,
\* exactly one returned success, every other returned OptimisticLock, and the
\* stage's machine is the winner's.
C1_AcceptExactlyOneWins ==
    \A s \in StageIds :
        stages[s].machine # "m0" =>
            /\ Cardinality(Winners(s)) <= 1
            /\ (Callers(s) # {} /\ \A w \in Callers(s) : AcceptReturned(w)) =>
                   \E w \in Callers(s) :
                       /\ apc[w] = "ok"
                       /\ \A v \in Callers(s) \ {w} : apc[v] = "lock"
                       /\ stages[s].machine = MachineOf(w)

\* Two agents raced on one stage: both read it unassigned, one's update went
\* through and the store rejected the other's.
C1_Witness ==
    \E s \in StageIds : \E w, v \in Callers(s) :
        /\ w # v
        /\ apc[w] = "ok"
        /\ apc[v] = "lock"
        /\ acopy[v] # NoRow

\* ---- C2 (SpecQueue)
\* C2: the stage a dispatch pass sends to a worker fits that worker: same os and
\* arch, the stage's variant and kernel empty or the worker's, and, when either
\* has a label, the two label maps equal.
C2_HandoffMatches ==
    dpc \in {"send", "sent"} =>
        LET it == items[idx]
            w == wfilter[target]
        IN /\ w.os = it.os
           /\ w.arch = it.arch
           /\ it.variant \in {"", w.variant}
           /\ it.kernel \in {"", w.kernel}
           /\ (it.labels # {} \/ w.labels # {}) => it.labels = w.labels

\* A labelled stage was delivered to a worker.
C2_Witness ==
    /\ dpc = "sent"
    /\ items[idx].labels # {}
    /\ got[target] = items[idx].id

\* ---- C3 (SpecQueue)
\* C3: a Request call that returned the cancellation error has its worker out of
\* the waiting set, and a dispatch pass is never sending (nor has just sent) to
\* a worker whose Request call removed it.
C3_CancelRemovesBeforeReturn ==
    /\ \A w \in Workers : rpc[w] = "ret_cancel" => w \notin workers
    /\ dpc \in {"send", "sent"} => rpc[target] # "ret_cancel"

\* A Request call was cancelled and returned, and a pass has handed a stage to
\* another worker of the same platform.
C3_Witness ==
    /\ dpc = "sent"
    /\ \E w \in Workers : rpc[w] = "ret_cancel" /\ wfilter[w] = wfilter[target]

\* ---- C4 (SpecQueue)
\* C4: the dispatch pass is never blocked in the send to a worker, holding the
\* mutex, while that worker's Request call has taken its cancellation branch and
\* waits for the mutex.
C4_NoSendUnderMutex ==
    ~(dpc = "send" /\ mutex = "signal" /\ rpc[target] = "cancel_lock")

\* ---- C5 (SpecCancel)
\* The build Cancel was called for, and its stages and steps.
CancelStages == {s \in StageIds : stages[s].build = cb.id}
CancelSteps == {k \in StepIds : steps[k].stage \in CancelStages}
CancelReturned(res) == cpc = "done" /\ cres = res

CancelWroteNothing ==
    /\ builds = cpre.builds
    /\ stages = cpre.stages
    /\ steps = cpre.steps
    /\ cancelled = cpre.cancelled
    /\ statusSent = cpre.statusSent
    /\ webhookSent = cpre.webhookSent

\* C6: a Cancel call for a build that is neither pending nor running goes from
\* its first test to its return, returns "cannot cancel completed build", and
\* leaves builds, stages, steps, the queue's cancellations, the statuses and the
\* webhooks as they were.
C6_CancelRejectsCompleted ==
    (cpc # "idle" /\ cpre.builds[cb.id].status \notin {StatusPending, StatusRunning}) =>
        /\ cpc \in {"check", "done"}
        /\ cpc = "done" => cres = "completed"
        /\ CancelWroteNothing

\* Cancel was called again for a build it had killed, and returned the error.
C6_Witness ==
    /\ CancelReturned("completed")
    /\ cpre.builds[cb.id].status = StatusKilled
    /\ cpre.webhookSent # {}

\* ---- C7 (SpecWatch)
\* C7: when Watch has returned without an error for a stage the store holds, it
\* returned true if a cancellation was signalled for the stage's build, and
\* otherwise whether the stage is done.
C7_WatchReturnsDone ==
    (wpc = "done" /\ wres.err = "nil" /\ wres.found) =>
        wres.ret = (IF wres.signalled THEN TRUE ELSE wres.isdone)

\* ---- C8 (SpecQueue)
\* The stages of repository r named n that carry a limit.
Limited(r, n) ==
    {s \in StageIds : stages[s].repo = r /\ stages[s].name = n /\ stages[s].limit > 0}

\* C8 as stated: of the stages of one repository and name that carry limit L > 0,
\* at most L are pending or running.
C8_AtMostLimitIncomplete ==
    \A r \in Repos, n \in StageNames : \A s \in Limited(r, n) :
        Cardinality({t \in Limited(r, n) :
                        stages[t].status \in {StatusPending, StatusRunning}}) <= stages[s].limit

\* The stages the current dispatch pass has handed to workers.
PassHanded ==
    {passHanded[i][1] : i \in 1..Len(passHanded)}
        \cup (IF dpc = "sent" THEN {items[idx].id} ELSE {})

\* C8: of the stages of one repository and name that carry limit L > 0, one
\* dispatch pass hands at most L to workers, and each has fewer than L older
\* stages of that repository and name in the list the pass fetched.
C8_AtMostLimitPerPass ==
    \A r \in Repos, n \in StageNames : \A s \in Limited(r, n) \cap PassHanded :
        /\ Cardinality(Limited(r, n) \cap PassHanded) <= stages[s].limit
        /\ Cardinality({j \in 1..Len(items) :
                          items[j].id \in Limited(r, n) /\ items[j].id < s}) < stages[s].limit

\* A pass handed a stage that carries a limit and passed over a waiting stage of
\* the same repository and name while a worker was still waiting.
C8_Witness ==
    /\ workers # {}
    /\ \E r \in Repos, n \in StageNames : \E s \in Limited(r, n) \cap PassHanded :
          \E j \in 1..Len(items) :
             /\ j < idx
             /\ items[j].id \in Limited(r, n) \ PassHanded
             /\ items[j].status = StatusPending
             /\ items[j].machine = ""

\* ---- C9 (SpecQueue)
\* Item j of the fetched list belongs to an older build of master than item i
\* does, in the same repository.
OlderMaster(j, i) ==
    /\ items[j].repo = items[i].repo
    /\ items[j].build < items[i].build
    /\ items[j].bsource = "master"
    /\ items[i].bsource = "master"

\* The pass is handing item idx to a worker, or has handed it.
Handing == dpc \in {"send", "sent"}

\* C9 as stated: a stage of a build of master is never handed to a worker while
\* the fetched list holds a stage of an older build of master of the repository.
C9_OlderMasterFirst ==
    Handing => \A j \in 1..Len(items) : ~OlderMaster(j, idx)

\* C9: a stage of a build of master that is not running is never handed to a
\* worker while the fetched list holds a stage of an older build of master of
\* the repository.
C9_OlderMasterFirstUnlessRunning ==
    (Handing /\ items[idx].bstatus # StatusRunning) =>
        \A j \in 1..Len(items) : ~OlderMaster(j, idx)

\* A pass handed the stage of the older build of master and passed over the
\* stage of the newer, which no agent had and whose build was not running,
\* while a worker was still waiting.
C9_Witness ==
    /\ workers # {}
    /\ \E i, j \in 1..Len(items) :
          /\ items[i].id \in PassHanded
          /\ OlderMaster(i, j)
          /\ j < idx
          /\ items[j].id \notin PassHanded
          /\ items[j].bstatus # StatusRunning
          /\ items[j].status = StatusPending
          /\ items[j].machine = ""

\* ---- C10 (Spec)
\* The place of a status on the way waiting, pending, running, done.
Rank(status) ==
    IF status \in Terminal THEN 3
    ELSE IF status = StatusRunning THEN 2
    ELSE IF status = StatusPending THEN 1
    ELSE 0

\* C10: no step of the queue, of Accept or of Cancel moves the status of a stage
\* back on the way waiting, pending, running, done.
C10_StatusMovesForward ==
    [][\A s \in StageIds : Rank(stages'[s].status) >= Rank(stages[s].status)]_vars

\* ---- C11 (SpecCancel)
\* The stages of build b.
StagesOfBuild(b) == {s \in StageIds : stages[s].build = b}

\* C11: in every state of the store, Cancel under way or returned, a build that
\* has stages is done exactly when all its stages are done.
C11_BuildDoneIffStagesDone ==
    \A b \in BuildIds :
        StagesOfBuild(b) # {} =>
            (builds[b].status \in Terminal
                <=> \A s \in StagesOfBuild(b) : stages[s].status \in Terminal)

\* ---- C12 (SpecPause)
\* C12: while the queue is paused no worker has just been handed a stage,
\* whatever the dispatch pass was doing when Pause was called.
C12_NoHandoffWhilePaused ==
    ~(paused /\ dpc = "sent")

\* ---- C13 (SpecPause)
\* C13: Schedule can always be called and returns at once, and the ready signal
\* never holds more than one wake-up, whatever Schedule, Resume and Request
\* calls were made since the dispatch loop last took one.
C13_OneHintPending ==
    /\ ready \in {0, 1}
    /\ ENABLED Schedule

\* A wake-up is pending, the dispatch loop is idle, and every worker has made
\* its Request and posted its hint: the later hints found the signal full.
C13_Witness ==
    /\ ready = 1
    /\ dpc = "idle"
    /\ \A w \in Workers : rpc[w] = "select" /\ w \in workers

\* ---- C14 (SpecLive)
\* The store holds a stage the filters let through that fits worker w.
EligibleFor(w) ==
    \E i \in 1..Len(ListIncomplete) :
        /\ Eligible(ListIncomplete[i], ListIncomplete)
        /\ Matches(ListIncomplete[i], wfilter[w])

\* Worker w waits, its Request not cancelled, the queue is not paused, and a
\* stage is there for it.
Waiting(w) ==
    /\ w \in workers
    /\ rpc[w] \in {"notify", "select"}
    /\ ~paused
    /\ EligibleFor(w)

\* A worker, w or another, has just been handed a stage that fits w.
HandedFor(w) == dpc = "sent" /\ Matches(items[idx], wfilter[w])

\* C14: a worker that waits, with the queue not paused and a stage for it in
\* the store, does not wait for ever: it leaves the waiting set, or the stage
\* goes, or a stage that fits it is handed to a worker.
C14_WaitingWorkerServed ==
    \A w \in Workers : Waiting(w) ~> (~Waiting(w) \/ HandedFor(w))

\* ---- C15 (SpecQueue)
\* C15: the hand-offs of one dispatch pass, the one under way included, are of
\* distinct stages to distinct workers, and a worker the pass has handed a
\* stage to is out of the waiting set.
C15_OneHandoffEach ==
    LET n == Len(passHanded)
    IN /\ \A i, j \in 1..n :
             i # j => /\ passHanded[i][1] # passHanded[j][1]
                      /\ passHanded[i][2] # passHanded[j][2]
       /\ \A i \in 1..n : passHanded[i][2] \notin workers
       /\ dpc \in {"send", "sent"} =>
             \A i \in 1..n : passHanded[i][1] # items[idx].id /\ passHanded[i][2] # target

\* One pass has handed a stage to a worker and has just handed another stage
\* to another worker.
C15_Witness ==
    /\ dpc = "sent"
    /\ Len(passHanded) >= 1
    /\ got[target] = items[idx].id

\* ---- C16 (SpecAfter)
\* C16: when After has returned it has tried both the updater and the deletion
\* of the live log stream, and the errors it returns are those of the calls
\* that failed.
C16_AfterAggregates ==
    after.pc = "done" =>
        /\ after.tried = {"updater", "logz"}
        /\ after.errs = after.failed

\* ---- C17 (SpecQueue)
\* The items of the fetched list of the repository and name of item i whose id
\* is below b.
OlderSiblings(i, b) ==
    {j \in 1..Len(items) :
        /\ items[j].repo = items[i].repo
        /\ items[j].name = items[i].name
        /\ items[j].id < b}

\* C17: an item of the fetched list is within its limit exactly when its limit
\* is 0 or fewer than limit items of its repository and name have a smaller id;
\* and an item with limit L > 0 that is handed to a worker is one of the L of
\* its repository and name with the smallest ids.
C17_WithinLimitsExact ==
    /\ \A i \in 1..Len(items) :
          withinLimits(items[i], items)
              <=> (items[i].limit = 0
                     \/ Cardinality(OlderSiblings(i, items[i].id)) < items[i].limit)
    /\ (dpc \in {"send", "sent"} /\ items[idx].limit > 0) =>
          Cardinality(OlderSiblings(idx, items[idx].id + 1)) <= items[idx].limit

\* The pass is at an item that every other filter lets through and the limit
\* holds back, after it handed out an older stage of that repository and name.
C17_Witness ==
    /\ dpc = "loop"
    /\ idx <= Len(items)
    /\ ~withinLimits(items[idx], items)
    /\ withinBranchLimits(items[idx], items)
    /\ items[idx].status = StatusPending
    /\ items[idx].machine = ""
    /\ \E i \in 1..Len(passHanded) : \E j \in OlderSiblings(idx, items[idx].id) :
          items[j].id = passHanded[i][1]

\* ---- C18 (SpecQueue)
\* C18: the item a dispatch pass sends to a worker is not running and has no
\* machine in the fetched list.
C18_NoHandoffOfTaken ==
    dpc \in {"send", "sent"} =>
        /\ items[idx].status # StatusRunning
        /\ items[idx].machine = ""

\* With a worker of its platform still waiting, the pass has gone past a
\* pending stage that an agent had accepted, without handing it out.
C18_Witness ==
    /\ dpc = "loop"
    /\ \E j \in 1..Len(items) :
          /\ j < idx
          /\ items[j].status = StatusPending
          /\ items[j].machine # ""
          /\ withinBranchLimits(items[j], items)
          /\ withinLimits(items[j], items)
          /\ items[j].id \notin PassHanded
          /\ \E w \in workers : Matches(items[j], wfilter[w])

\* ---- C19 (SpecCancel)
\* C19: a build for which a cancellation is signalled is stored as killed; a
\* Cancel call that has written a stage or a step has signalled the
\* cancellation of its build before; and a call whose build write failed has
\* returned with no signal and nothing written.
C19_SignalAfterBuildKilled ==
    /\ \A b \in cancelled : builds[b].status = StatusKilled
    /\ (cpc # "idle" /\ (stages # cpre.stages \/ steps # cpre.steps)) =>
          /\ cb.id \in cancelled
          /\ builds[cb.id].status = StatusKilled
    /\ "build" \in cfail =>
          /\ CancelReturned("err_build")
          /\ CancelWroteNothing

\* Cancel has killed the build, signalled the cancellation and written the
\* first of two stages; the second is as it was.
C19_Witness ==
    /\ cpc = "steps"
    /\ cb.id \in cancelled
    /\ builds[cb.id].status = StatusKilled
    /\ \E s, t \in CancelStages :
          stages[s] # cpre.stages[s] /\ stages[t] = cpre.stages[t] /\ ~IsDone(stages[t].status)

\* ---- C20 (SpecCancel)
\* C20: a Cancel call whose status update failed had a user, has returned the
\* error, and has written no stage and no step, while its build is stored as
\* killed and its cancellation is signalled; a call whose webhook failed has
\* returned nil with every stage and step of the build done.
C20_StatusAndWebhookFailure ==
    /\ "status" \in cfail =>
          /\ cuser
          /\ CancelReturned("err_status")
          /\ stages = cpre.stages
          /\ steps = cpre.steps
          /\ builds[cb.id].status = StatusKilled
          /\ cb.id \in cancelled
    /\ "webhook" \in cfail =>
          /\ CancelReturned("ok")
          /\ \A s \in CancelStages : IsDone(stages[s].status)
          /\ \A k \in CancelSteps : IsDone(steps[k].status)

\* The webhook of a Cancel call failed after the call had sent the status and
\* changed a stage and a step.
C20_Witness ==
    /\ "webhook" \in cfail
    /\ cb.id \in statusSent
    /\ \E s \in CancelStages : stages[s] # cpre.stages[s]
    /\ \E k \in CancelSteps : steps[k] # cpre.steps[k]

\* ---- C21 (SpecCancel)
\* A stage or step row Cancel changed: it was not done, it is killed when it had
\* started and skipped with a start time when it had not, it is stopped, and it
\* did not start after it stopped.
CancelChanged(was, is) ==
    /\ ~IsDone(was.status)
    /\ is.status = (IF was.started # 0 THEN StatusKilled ELSE StatusSkipped)
    /\ is.started = (IF was.started # 0 THEN was.started ELSE is.started)
    /\ is.started # 0
    /\ is.stopped # 0
    /\ is.stopped <= now
    /\ is.started <= is.stopped

\* Every stage and step row the Cancel call has changed is changed as CancelChanged says.
CancelRowsChanged ==
    cpc # "idle" =>
        /\ \A s \in CancelStages : stages[s] # cpre.stages[s] => CancelChanged(cpre.stages[s], stages[s])
        /\ \A k \in CancelSteps : steps[k] # cpre.steps[k] => CancelChanged(cpre.steps[k], steps[k])

\* C21: every stage and step Cancel wrote was not terminal and is killed when it
\* had started, else skipped and started now, and is stopped now, with
\* started <= stopped; and the build Cancel wrote has started <= finished.
C21_CancelTimes ==
    /\ CancelRowsChanged
    /\ (cpc # "idle" /\ builds[cb.id] # cpre.builds[cb.id]) =>
           builds[cb.id].started <= builds[cb.id].finished

\* ---- C22 (Spec)
\* C22: no step of the dispatch loop changes a build, a stage or a step of the
\* store, and a stage's machine changes only in the store update of an Accept
\* call for that stage that succeeds.
C22_HandoffWritesNothing ==
    [][/\ dispVars' # dispVars => UNCHANGED <<builds, stages, steps>>
       /\ \A s \in StageIds :
             stages'[s].machine # stages[s].machine =>
                 \E w \in Workers : got[w] = s /\ apc[w] = "found" /\ apc'[w] = "ok"]_vars

\* Two passes handed one stage to two workers, and the stage is in the store as
\* it was at the start: pending, with no machine.
C22_Witness ==
    \E s \in StageIds : \E w, v \in Workers :
        /\ w # v
        /\ rpc[w] = "got" /\ got[w] = s
        /\ rpc[v] = "got" /\ got[v] = s
        /\ dpc = "idle"
        /\ stages[s].machine = ""
        /\ stages[s].status = StatusPending
        /\ stages[s].version = 1

\* ---- C23 (SpecAccept)
\* C23: an Accept call that finds its stage with a machine returns
\* OptimisticLock and leaves the stages as they are; a call that found the
\* machine empty hands the store a row with its own machine and status pending,
\* and returns what the store's optimistic update returns: success with that
\* row written, or OptimisticLock with the stages as they are.
C23_AcceptLockOrWrite ==
    [][\A w \in Workers :
          /\ (apc[w] = "idle" /\ apc'[w] # "idle" /\ got[w] \in StageIds) =>
                IF stages[got[w]].machine # ""
                THEN apc'[w] = "lock" /\ stages' = stages
                ELSE apc'[w] = "found" /\ stages' = stages
          /\ (apc[w] = "found" /\ apc'[w] # "found") =>
                IF stages[got[w]].version = acopy[w].version
                THEN /\ apc'[w] = "ok"
                     /\ stages'[got[w]].machine = MachineOf(w)
                     /\ stages'[got[w]].status = StatusPending
                     /\ \A s \in StageIds \ {got[w]} : stages'[s] = stages[s]
                ELSE apc'[w] = "lock" /\ stages' = stages]_vars

\* Of two agents with one stage, one has accepted it and the other, calling
\* later, found the winner's machine on the stage and returned OptimisticLock
\* before any update.
C23_Witness ==
    \E w, v \in Workers :
        /\ w # v
        /\ got[w] = got[v]
        /\ apc[w] = "ok"
        /\ stages[got[w]].machine = MachineOf(w)
        /\ stages[got[w]].status = StatusPending
        /\ apc[v] = "lock"
        /\ acopy[v] = NoRow

\* ---- C24 (SpecPause)
\* C24: a dispatch pass whose ListIncomplete does not succeed ends with signal
\* returning its error to start: the step leaves the waiting set, the paused
\* flag, the mutex, the Request calls and the store as they are, no send was
\* begun, and start goes back from the error to its select, where a tick or a
\* hint starts the next pass.
C24_ListErrorKeepsLoop ==
    /\ [][(dpc = "list" /\ dpc' \notin {"list", "lock"}) =>
             (dpc' = "failed" /\ UNCHANGED <<workers, paused, mutex, rpc, got, target, passHanded, ready, storeVars>>)]_vars
    /\ [][(dpc = "failed" /\ dpc' # "failed") =>
             (dpc' = "idle" /\ UNCHANGED <<workers, paused, mutex, rpc, got, target, passHanded, ready, storeVars>>)]_vars
    /\ [](dpc = "failed" => (mutex = "none" /\ target = 0 /\ passHanded = <<>>))
    /\ [](dpc = "idle" => ((ENABLED StartTick) /\ (ready > 0 => ENABLED StartReady)))

\* ListIncomplete failed in a pass that had work to do: a worker waits whose
\* Request is at its select, a stage it fits is eligible in the store, and a
\* Pause came in after the pass had read the flag.
C24_Witness ==
    /\ dpc = "failed"
    /\ paused
    /\ \E w \in workers :
          /\ rpc[w] = "select"
          /\ \E i \in 1..Len(ListIncomplete) :
                /\ Eligible(ListIncomplete[i], ListIncomplete)
                /\ Matches(ListIncomplete[i], wfilter[w])

\* ---- C25 (SpecQueue)
\* The workers whose Request call has registered and has neither received a
\* stage nor returned the cancellation error.
InProgress == {w \in Workers : rpc[w] \in {"notify", "select", "cancel_lock"}}

\* The worker a pass has sent a stage to and has not yet deleted.
JustHanded == IF dpc = "sent" THEN {target} ELSE {}

\* The life of a worker in the waiting set: it comes in only when its Request call
\* registers it, it goes out only in the delete after a send to it or in the
\* cancellation branch of its Request call, and what a Request call has
\* returned is one stage or the cancellation error, for good.
WorkerLifetime ==
    \A w \in Workers :
        /\ (w \notin workers /\ w \in workers') => (rpc[w] = "idle" /\ rpc'[w] = "notify")
        /\ (w \in workers /\ w \notin workers') =>
               \/ dpc = "sent" /\ target = w /\ rpc[w] = "got"
               \/ rpc[w] = "cancel_lock" /\ rpc'[w] = "ret_cancel"
        /\ rpc[w] \in {"got", "ret_cancel"} => (rpc'[w] = rpc[w] /\ got'[w] = got[w])
        /\ rpc'[w] = "got" <=> got'[w] \in StageIds
        /\ rpc'[w] # "got" => got'[w] = 0

\* C25 as stated: in every state the waiting set is exactly the set of workers
\* whose Request call is in progress and that were not handed a stage.
C25_WaitingSetExact == workers = InProgress

\* C25: the waiting set is exactly the set of workers whose Request call is in
\* progress and that were not handed a stage, and between the send of a hand-off
\* and its delete also the worker that was handed; a worker is added once, by
\* its Request call, removed by the hand-off or by the cancellation, never added
\* again, and a Request call returns one stage or the cancellation error.
C25_WaitingSetButHandoff ==
    /\ [](workers = InProgress \cup JustHanded)
    /\ [](mutex = "none" => workers = InProgress)
    /\ [][WorkerLifetime]_vars

\* One Request call has returned a stage and another the cancellation error;
\* both workers are out of the waiting set and the pass is over.
C25_Witness ==
    \E w, v \in Workers :
        /\ rpc[w] = "got" /\ got[w] \in StageIds
        /\ rpc[v] = "ret_cancel" /\ got[v] = 0
        /\ workers = {}
        /\ mutex = "none"

====
